---------------------------- MODULE Spec2Model ----------------------------
(***************************************************************************)
(* The SSE session-discovery + JSON-RPC handshake of the three diagnostic  *)
(* scripts of mcp-server-prtg:                                             *)
(*   test-mcp-sse.py      ("sse")    urllib listener thread + orchestrator *)
(*   test-mcp-sse-v2.py   ("sse_v2") requests listener thread + orchestr.  *)
(*   test_mcp_client.py   ("client") sequential suite of six checks        *)
(* Text (stream lines, payloads, URLs, HTTP bodies) is a sequence of       *)
(* one-character strings, so that strip / startswith / slicing / the       *)
(* sessionId regular expression / json.loads are computed as the code      *)
(* computes them.                                                          *)
(***************************************************************************)
EXTENDS Integers, Sequences, FiniteSets, TLC

(***************************************************************************)
(* Python values that are not text.                                        *)
(***************************************************************************)
\* None where the code holds text (session_id, message_url): no text of the
\* model has an element that is not a single character
None == <<"None">>

\* None where the code holds a parsed JSON value
NoValue == [t |-> "None"]

(***************************************************************************)
(* str helpers.                                                            *)
(***************************************************************************)
Whitespace == {" "}

RECURSIVE LStrip(_)
LStrip(s) ==
    IF s # <<>> /\ Head(s) \in Whitespace THEN LStrip(Tail(s)) ELSE s

RECURSIVE RStrip(_)
RStrip(s) ==
    IF s # <<>> /\ s[Len(s)] \in Whitespace
    THEN RStrip(SubSeq(s, 1, Len(s) - 1))
    ELSE s

\* str.strip()
Strip(s) == RStrip(LStrip(s))

\* s.startswith(p)
StartsWith(s, p) == Len(s) >= Len(p) /\ SubSeq(s, 1, Len(p)) = p

\* p occurs in s at index i (1-based)
MatchesAt(s, p, i) == i + Len(p) - 1 <= Len(s) /\ SubSeq(s, i, i + Len(p) - 1) = p

\* p in s
Contains(s, p) == \E i \in 1..(Len(s) + 1) : MatchesAt(s, p, i)

\* s[n:]
SliceFrom(s, n) == SubSeq(s, n + 1, Len(s))

(***************************************************************************)
(* re.search(r'sessionId=([a-f0-9\-]+)', line).group(1), or None.          *)
(***************************************************************************)
SessionIdKey == <<"s", "e", "s", "s", "i", "o", "n", "I", "d", "=">>

TokenChars == {"a", "b", "c", "d", "e", "f",
               "0", "1", "2", "3", "4", "5", "6", "7", "8", "9", "-"}

\* the longest run of token characters of s that starts at index i: its last index
RECURSIVE TokenEnd(_, _)
TokenEnd(s, i) ==
    IF i + 1 <= Len(s) /\ s[i + 1] \in TokenChars THEN TokenEnd(s, i + 1) ELSE i

\* the start indexes at which the pattern matches: the key, then one token character
SessionIdMatches(s) ==
    {i \in 1..Len(s) : /\ MatchesAt(s, SessionIdKey, i)
                       /\ i + Len(SessionIdKey) <= Len(s)
                       /\ s[i + Len(SessionIdKey)] \in TokenChars}

SearchSessionId(s) ==
    LET ms == SessionIdMatches(s)
    IN  IF ms = {} THEN None
        ELSE LET i == CHOOSE m \in ms : \A n \in ms : m <= n
                 b == i + Len(SessionIdKey)
             IN  SubSeq(s, b, TokenEnd(s, b))

(***************************************************************************)
(* json.loads on the JSON subset the texts of the model use: objects,      *)
(* arrays, strings without escapes, non-negative integers, spaces between  *)
(* tokens.  A value is a tagged record: [t |-> "obj", v |-> <<pairs>>],    *)
(* [t |-> "arr", v |-> <<values>>], [t |-> "str", v |-> <<chars>>],        *)
(* [t |-> "num", v |-> n].  Anything else is a JSONDecodeError.            *)
(***************************************************************************)
Digits == {"0", "1", "2", "3", "4", "5", "6", "7", "8", "9"}

DigitValue(c) ==
    CASE c = "0" -> 0 [] c = "1" -> 1 [] c = "2" -> 2 [] c = "3" -> 3
      [] c = "4" -> 4 [] c = "5" -> 5 [] c = "6" -> 6 [] c = "7" -> 7
      [] c = "8" -> 8 [] c = "9" -> 9

JSONDecodeError == [t |-> "JSONDecodeError"]

ParseFail == [ok |-> FALSE]

ParseOk(val, next) == [ok |-> TRUE, val |-> val, next |-> next]

RECURSIVE SkipWs(_, _)
SkipWs(s, i) ==
    IF i <= Len(s) /\ s[i] \in Whitespace THEN SkipWs(s, i + 1) ELSE i

\* the index of the next double quote at or after i, 0 when there is none
RECURSIVE QuoteAt(_, _)
QuoteAt(s, i) ==
    IF i > Len(s) THEN 0
    ELSE IF s[i] = "\"" THEN i
    ELSE QuoteAt(s, i + 1)

\* s[i] is an opening quote
ParseString(s, i) ==
    LET j == QuoteAt(s, i + 1)
    IN  IF j = 0 THEN ParseFail
        ELSE ParseOk([t |-> "str", v |-> SubSeq(s, i + 1, j - 1)], j + 1)

RECURSIVE ParseDigits(_, _, _)
ParseDigits(s, i, acc) ==
    IF i <= Len(s) /\ s[i] \in Digits
    THEN ParseDigits(s, i + 1, 10 * acc + DigitValue(s[i]))
    ELSE ParseOk([t |-> "num", v |-> acc], i)

\* the element of a set of one element: {F(x) : x \in {e}} evaluates e once,
\* where LET x == e IN F(x) evaluates it at every use of x
The(S) == CHOOSE r \in S : TRUE

RECURSIVE ParseValue(_, _)
RECURSIVE ParseMembers(_, _, _)
RECURSIVE ParseElements(_, _, _)

\* after the value of a member: "," and the next member, or "}"
MemberEnd(s, key, val, acc) ==
    IF ~val.ok THEN ParseFail
    ELSE LET e == SkipWs(s, val.next)
             acc2 == Append(acc, <<key.val.v, val.val>>)
         IN  IF e > Len(s) THEN ParseFail
             ELSE IF s[e] = "}" THEN ParseOk([t |-> "obj", v |-> acc2], e + 1)
             ELSE IF s[e] = "," THEN ParseMembers(s, e + 1, acc2)
             ELSE ParseFail

\* after the key of a member: ":" and the value
MemberValue(s, key, acc) ==
    IF ~key.ok THEN ParseFail
    ELSE LET c == SkipWs(s, key.next)
         IN  IF c > Len(s) \/ s[c] # ":" THEN ParseFail
             ELSE The({MemberEnd(s, key, val, acc) :
                          val \in {ParseValue(s, SkipWs(s, c + 1))}})

\* after "{" or ",": "key" : value, then "," or "}"
ParseMembers(s, i, acc) ==
    LET k == SkipWs(s, i)
    IN  IF k > Len(s) \/ s[k] # "\"" THEN ParseFail
        ELSE The({MemberValue(s, key, acc) : key \in {ParseString(s, k)}})

\* after the value of an element: "," and the next element, or "]"
ElementEnd(s, val, acc) ==
    IF ~val.ok THEN ParseFail
    ELSE LET e == SkipWs(s, val.next)
             acc2 == Append(acc, val.val)
         IN  IF e > Len(s) THEN ParseFail
             ELSE IF s[e] = "]" THEN ParseOk([t |-> "arr", v |-> acc2], e + 1)
             ELSE IF s[e] = "," THEN ParseElements(s, e + 1, acc2)
             ELSE ParseFail

\* after "[" or ",": value, then "," or "]"
ParseElements(s, i, acc) ==
    The({ElementEnd(s, val, acc) : val \in {ParseValue(s, SkipWs(s, i))}})

ParseValue(s, i) ==
    IF i > Len(s) THEN ParseFail
    ELSE IF s[i] = "{"
    THEN LET k == SkipWs(s, i + 1)
         IN  IF k <= Len(s) /\ s[k] = "}"
             THEN ParseOk([t |-> "obj", v |-> <<>>], k + 1)
             ELSE ParseMembers(s, i + 1, <<>>)
    ELSE IF s[i] = "["
    THEN LET k == SkipWs(s, i + 1)
         IN  IF k <= Len(s) /\ s[k] = "]"
             THEN ParseOk([t |-> "arr", v |-> <<>>], k + 1)
             ELSE ParseElements(s, i + 1, <<>>)
    ELSE IF s[i] = "\"" THEN ParseString(s, i)
    ELSE IF s[i] \in Digits THEN ParseDigits(s, i, 0)
    ELSE ParseFail

\* json.loads(s): the value, or JSONDecodeError
Loaded(s, r) ==
    IF r.ok /\ SkipWs(s, r.next) = Len(s) + 1 THEN r.val ELSE JSONDecodeError

json_loads(s) == The({Loaded(s, r) : r \in {ParseValue(s, SkipWs(s, 1))}})

(***************************************************************************)
(* The literals of the code.                                               *)
(***************************************************************************)
DataPrefix == <<"d", "a", "t", "a", ":">>

HttpPrefix == <<"h", "t", "t", "p">>

KeyResult == <<"r", "e", "s", "u", "l", "t">>

KeyTools == <<"t", "o", "o", "l", "s">>

KeyName == <<"n", "a", "m", "e">>

KeyDescription == <<"d", "e", "s", "c", "r", "i", "p", "t", "i", "o", "n">>

KeyError == <<"e", "r", "r", "o", "r">>

KeyId == <<"i", "d">>

(***************************************************************************)
(* The lines the server may write on the stream.                           *)
(***************************************************************************)
\* data: http://h/m?sessionId=ab-1
LineSessionUrl ==
    <<"d", "a", "t", "a", ":", " ", "h", "t", "t", "p", ":", "/", "/", "h",
      "/", "m", "?", "s", "e", "s", "s", "i", "o", "n", "I", "d", "=", "a",
      "b", "-", "1">>

\* data: /m?sessionId=cd
LineSessionPath ==
    <<"d", "a", "t", "a", ":", " ", "/", "m", "?", "s", "e", "s", "s", "i",
      "o", "n", "I", "d", "=", "c", "d">>

\* data: {"id":1,"result":{"tools":[{"name":"t1","description":"d"}]}}
LineTools ==
    <<"d", "a", "t", "a", ":", " ", "{", "\"", "i", "d", "\"", ":", "1", ",",
      "\"", "r", "e", "s", "u", "l", "t", "\"", ":", "{", "\"", "t", "o",
      "o", "l", "s", "\"", ":", "[", "{", "\"", "n", "a", "m", "e", "\"",
      ":", "\"", "t", "1", "\"", ",", "\"", "d", "e", "s", "c", "r", "i",
      "p", "t", "i", "o", "n", "\"", ":", "\"", "d", "\"", "}", "]", "}",
      "}">>

\* data: {"id":1,"error":{"code":1}}
LineError ==
    <<"d", "a", "t", "a", ":", " ", "{", "\"", "i", "d", "\"", ":", "1", ",",
      "\"", "e", "r", "r", "o", "r", "\"", ":", "{", "\"", "c", "o", "d",
      "e", "\"", ":", "1", "}", "}">>

\* data: {"id":1,"result":{"tools":[{"name":"t1"}]}}
LineToolNoDescription ==
    <<"d", "a", "t", "a", ":", " ", "{", "\"", "i", "d", "\"", ":", "1", ",",
      "\"", "r", "e", "s", "u", "l", "t", "\"", ":", "{", "\"", "t", "o",
      "o", "l", "s", "\"", ":", "[", "{", "\"", "n", "a", "m", "e", "\"",
      ":", "\"", "t", "1", "\"", "}", "]", "}", "}">>

\* data: {"method":"ping"}
LineNotification ==
    <<"d", "a", "t", "a", ":", " ", "{", "\"", "m", "e", "t", "h", "o", "d",
      "\"", ":", "\"", "p", "i", "n", "g", "\"", "}">>

\* data: {"id":1,"result":{}}
LineResultNoTools ==
    <<"d", "a", "t", "a", ":", " ", "{", "\"", "i", "d", "\"", ":", "1", ",",
      "\"", "r", "e", "s", "u", "l", "t", "\"", ":", "{", "}", "}">>

\* the empty line that ends an event
LineBlank == <<>>

StreamLines ==
    {LineSessionUrl, LineSessionPath, LineTools, LineError,
     LineToolNoDescription, LineNotification, LineResultNoTools, LineBlank}

(***************************************************************************)
(* The stream of the handshake scenario: a data event carrying a URL with   *)
(* a sessionId, an endpoint event carrying the message URL and, once the    *)
(* POST was accepted, a data event carrying the response.                   *)
(***************************************************************************)
\* data: http://x/sse?sessionId=abc-123-def
LineScenarioSession ==
    <<"d", "a", "t", "a", ":", " ", "h", "t", "t", "p", ":", "/", "/", "x",
      "/", "s", "s", "e", "?", "s", "e", "s", "s", "i", "o", "n", "I", "d",
      "=", "a", "b", "c", "-", "1", "2", "3", "-", "d", "e", "f">>

\* event: endpoint
LineScenarioEvent ==
    <<"e", "v", "e", "n", "t", ":", " ", "e", "n", "d", "p", "o", "i", "n",
      "t">>

\* data: http://host/message?sessionId=abc-123-def
LineScenarioEndpoint ==
    <<"d", "a", "t", "a", ":", " ", "h", "t", "t", "p", ":", "/", "/", "h",
      "o", "s", "t", "/", "m", "e", "s", "s", "a", "g", "e", "?", "s", "e",
      "s", "s", "i", "o", "n", "I", "d", "=", "a", "b", "c", "-", "1", "2",
      "3", "-", "d", "e", "f">>

\* data: {"jsonrpc":"2.0","id":1,"result":{"tools":[{"name":"t1","description":"d"}]}}
LineScenarioResponse ==
    <<"d", "a", "t", "a", ":", " ", "{", "\"", "j", "s", "o", "n", "r", "p",
      "c", "\"", ":", "\"", "2", ".", "0", "\"", ",", "\"", "i", "d", "\"",
      ":", "1", ",", "\"", "r", "e", "s", "u", "l", "t", "\"", ":", "{",
      "\"", "t", "o", "o", "l", "s", "\"", ":", "[", "{", "\"", "n", "a",
      "m", "e", "\"", ":", "\"", "t", "1", "\"", ",", "\"", "d", "e", "s",
      "c", "r", "i", "p", "t", "i", "o", "n", "\"", ":", "\"", "d", "\"",
      "}", "]", "}", "}">>

\* the lines of the scenario, in the order the server writes them
ScenarioLines ==
    <<LineScenarioSession, LineBlank, LineScenarioEvent, LineScenarioEndpoint,
      LineBlank, LineScenarioResponse, LineBlank>>

\* the lines the server writes before it has accepted the POST
ScenarioHandshakeLines == 5

\* the events SSEClient makes of the lines of the scenario before the POST
ScenarioEvents ==
    <<[event |-> "message", data |-> SliceFrom(LineScenarioSession, 6)],
      [event |-> "endpoint", data |-> SliceFrom(LineScenarioEndpoint, 6)]>>

(***************************************************************************)
(* The bodies and the URLs the server may send to test_mcp_client.py.      *)
(***************************************************************************)
\* the keys and values test_status_with_auth reads
KeyStatus ==
    <<"s", "t", "a", "t", "u", "s">>

\* data.get('database', {})
KeyDatabase ==
    <<"d", "a", "t", "a", "b", "a", "s", "e">>

\* data.get("status") == "running"
TextRunning ==
    <<"r", "u", "n", "n", "i", "n", "g">>

\* {"status":"running","database":{"status":"connected"}}
BodyRunning ==
    <<"{", "\"", "s", "t", "a", "t", "u", "s", "\"", ":", "\"", "r", "u",
      "n", "n", "i", "n", "g", "\"", ",", "\"", "d", "a", "t", "a", "b", "a",
      "s", "e", "\"", ":", "{", "\"", "s", "t", "a", "t", "u", "s", "\"",
      ":", "\"", "c", "o", "n", "n", "e", "c", "t", "e", "d", "\"", "}", "}">>

\* {"status":"running","database":1}
BodyRunningBadDatabase ==
    <<"{", "\"", "s", "t", "a", "t", "u", "s", "\"", ":", "\"", "r", "u",
      "n", "n", "i", "n", "g", "\"", ",", "\"", "d", "a", "t", "a", "b", "a",
      "s", "e", "\"", ":", "1", "}">>

\* {"status":"stopped"}
BodyStopped ==
    <<"{", "\"", "s", "t", "a", "t", "u", "s", "\"", ":", "\"", "s", "t",
      "o", "p", "p", "e", "d", "\"", "}">>

\* oops
BodyNotJson ==
    <<"o", "o", "p", "s">>

\* {"id":1,"result":{"tools":[{"name":"t1"}]}}
BodyResultTools ==
    <<"{", "\"", "i", "d", "\"", ":", "1", ",", "\"", "r", "e", "s", "u",
      "l", "t", "\"", ":", "{", "\"", "t", "o", "o", "l", "s", "\"", ":",
      "[", "{", "\"", "n", "a", "m", "e", "\"", ":", "\"", "t", "1", "\"",
      "}", "]", "}", "}">>

\* {"id":1,"result":{}}
BodyResultNoTools ==
    <<"{", "\"", "i", "d", "\"", ":", "1", ",", "\"", "r", "e", "s", "u",
      "l", "t", "\"", ":", "{", "}", "}">>

\* {"id":1,"error":{"code":1}}
BodyError ==
    <<"{", "\"", "i", "d", "\"", ":", "1", ",", "\"", "e", "r", "r", "o",
      "r", "\"", ":", "{", "\"", "c", "o", "d", "e", "\"", ":", "1", "}",
      "}">>

\* {}
BodyEmptyObject ==
    <<"{", "}">>

\* http://h/m?sessionId=ab-1
UrlMessage ==
    <<"h", "t", "t", "p", ":", "/", "/", "h", "/", "m", "?", "s", "e", "s",
      "s", "i", "o", "n", "I", "d", "=", "a", "b", "-", "1">>

\* ' /m?sessionId=cd' (the data field keeps a second leading space)
UrlOther ==
    <<" ", "/", "m", "?", "s", "e", "s", "s", "i", "o", "n", "I", "d", "=",
      "c", "d">>

\* http://h/sse?sessionId=ab-1
UrlSse ==
    <<"h", "t", "t", "p", ":", "/", "/", "h", "/", "s", "s", "e", "?", "s",
      "e", "s", "s", "i", "o", "n", "I", "d", "=", "a", "b", "-", "1">>


(***************************************************************************)
(* Python's `in` and subscript on a parsed JSON value.                     *)
(***************************************************************************)
ObjHas(o, key) == \E k \in 1..Len(o.v) : o.v[k][1] = key

\* o[key] for a dict that has the key (a repeated key keeps its last value)
ObjGet(o, key) ==
    LET k == CHOOSE m \in 1..Len(o.v) :
                 /\ o.v[m][1] = key
                 /\ \A n \in 1..Len(o.v) : o.v[n][1] = key => n <= m
    IN  o.v[k][2]

\* `key in val` for a dict, a list or a str (on a number it raises TypeError)
PyIn(key, val) ==
    CASE val.t = "obj" -> ObjHas(val, key)
      [] val.t = "arr" -> \E k \in 1..Len(val.v) :
                             val.v[k].t = "str" /\ val.v[k].v = key
      [] val.t = "str" -> Contains(val.v, key)
      [] OTHER -> FALSE

\* `for tool in tools: print(tool['name'], tool['description'])` raises nothing
ToolsPrintable(tools) ==
    CASE tools.t = "arr" -> \A k \in 1..Len(tools.v) :
                               /\ tools.v[k].t = "obj"
                               /\ ObjHas(tools.v[k], KeyName)
                               /\ ObjHas(tools.v[k], KeyDescription)
      [] tools.t = "obj" -> tools.v = <<>>
      [] tools.t = "str" -> tools.v = <<>>
      [] OTHER -> FALSE

(***************************************************************************)
(* The interpretation of the parsed response by test_mcp_flow:             *)
(*   "success"           the tools were listed, return True                *)
(*   "unexpected_format" the else branch, return False                     *)
(*   "exception"         a TypeError / KeyError reached `except Exception` *)
(***************************************************************************)
ToolsListOutcome(result) ==
    IF result.t = "num" THEN "exception"
    ELSE IF ~PyIn(KeyResult, result) THEN "unexpected_format"
    ELSE IF result.t # "obj" THEN "exception"
    ELSE LET r == ObjGet(result, KeyResult)
         IN  IF r.t = "num" THEN "exception"
             ELSE IF ~PyIn(KeyTools, r) THEN "unexpected_format"
             ELSE IF r.t # "obj" THEN "exception"
             ELSE IF ToolsPrintable(ObjGet(r, KeyTools)) THEN "success"
             ELSE "exception"

(***************************************************************************)
(* test_mcp_client.py: what each check makes of the response it got.       *)
(***************************************************************************)
\* test_health: print_json(response.json()), then status_code == 200
HealthPasses(st, body) == json_loads(body) # JSONDecodeError /\ st = 200

\* test_status_without_auth: status_code == 401
StatusWithoutAuthPasses(st) == st = 401

\* test_status_with_auth: response.json(), status_code == 200,
\* data.get("status") == "running", data.get('database', {}).get(...)
StatusWithAuthPasses(st, body) ==
    LET data == json_loads(body)
    IN  /\ data # JSONDecodeError
        /\ st = 200
        /\ data.t = "obj"
        /\ ObjHas(data, KeyStatus)
        /\ ObjGet(data, KeyStatus) = [t |-> "str", v |-> TextRunning]
        /\ ObjHas(data, KeyDatabase) => ObjGet(data, KeyDatabase).t = "obj"

\* for tool in tools: tool.get('name'), tool.get('description', ...)[:60]
\* raises nothing
ClientToolsPrintable(tools) ==
    CASE tools.t = "arr" -> \A k \in 1..Len(tools.v) :
                               /\ tools.v[k].t = "obj"
                               /\ ObjHas(tools.v[k], KeyDescription) =>
                                     ObjGet(tools.v[k], KeyDescription).t
                                        \in {"str", "arr"}
      [] tools.t = "obj" -> tools.v = <<>>
      [] tools.t = "str" -> tools.v = <<>>
      [] OTHER -> FALSE

\* test_mcp_rpc_call: print_json(response.json()); if status_code == 200:
\* if "result" in data: tools = data.get("result", {}).get("tools", [])
RpcCallOutcome(st, body) ==
    LET data == json_loads(body)
    IN  IF data = JSONDecodeError THEN "exception"
        ELSE IF st # 200 THEN "status"
        ELSE IF data.t = "num" THEN "exception"
        ELSE IF ~PyIn(KeyResult, data) THEN "unexpected_format"
        ELSE IF data.t # "obj" THEN "exception"
        ELSE LET r == ObjGet(data, KeyResult)
             IN  IF r.t # "obj" THEN "exception"
                 ELSE IF ~ObjHas(r, KeyTools) THEN "success"
                 ELSE IF ClientToolsPrintable(ObjGet(r, KeyTools)) THEN "success"
                 ELSE "exception"

\* GetSensorsOutcome with `return False` in the `elif "error" in data` branch
GetSensorsOutcome_ErrorFails(st, body) ==
    LET data == json_loads(body)
    IN  IF st # 200 THEN "status"
        ELSE IF data = JSONDecodeError THEN "exception"
        ELSE IF data.t = "num" THEN "exception"
        ELSE IF PyIn(KeyResult, data)
        THEN (IF data.t = "obj" THEN "success" ELSE "exception")
        ELSE IF PyIn(KeyError, data)
        THEN (IF data.t = "obj" THEN "rpc_error" ELSE "exception")
        ELSE "unexpected_format"

\* test_mcp_get_sensors: if status_code == 200: data = response.json();
\* if "result" in data ... elif "error" in data ... else
GetSensorsOutcome(st, body) ==
    LET data == json_loads(body)
    IN  IF st # 200 THEN "status"
        ELSE IF data = JSONDecodeError THEN "exception"
        ELSE IF data.t = "num" THEN "exception"
        ELSE IF PyIn(KeyResult, data)
        THEN (IF data.t = "obj" THEN "success" ELSE "exception")
        ELSE IF PyIn(KeyError, data)
        THEN (IF data.t = "obj" THEN "success_error" ELSE "exception")
        ELSE "unexpected_format"

\* if message_url / if sse_success and message_url
Truthy(text) == text # None /\ text # <<>>

\* the statuses of GET /health and GET /status
CheckStatuses == {200, 401, 500}

\* the bodies of GET /health and GET /status
CheckBodies == {BodyRunning, BodyRunningBadDatabase, BodyStopped, BodyNotJson}

\* the bodies of POST message_url
PostBodies == {BodyResultTools, BodyResultNoTools, BodyError, BodyEmptyObject,
               BodyNotJson}

\* the events of the stream of /sse, as SSEClient gives them
EndpointEvents ==
    {[event |-> "endpoint", data |-> UrlMessage],
     [event |-> "endpoint", data |-> UrlOther],
     [event |-> "endpoint", data |-> <<>>]}

ClientEvents == EndpointEvents \cup {[event |-> "message", data |-> UrlSse]}

(***************************************************************************)
(* The listener's work on one line (both listener scripts).                *)
(***************************************************************************)
\* ExtractSessionId without `session_id is None`: the last match wins
ExtractSessionId_LastWins(sid, line) ==
    IF Contains(line, SessionIdKey)
    THEN LET match == SearchSessionId(line)
         IN  IF match # None THEN match ELSE sid
    ELSE sid

\* if session_id is None and "sessionId=" in line: match = re.search(...)
ExtractSessionId(sid, line) ==
    IF sid = None /\ Contains(line, SessionIdKey)
    THEN LET match == SearchSessionId(line)
         IN  IF match # None THEN match ELSE sid
    ELSE sid

\* CollectResponse without `not data.startswith("http")`
CollectResponse_KeepUrls(responses, line) ==
    IF StartsWith(line, DataPrefix)
    THEN LET data == Strip(SliceFrom(line, 5))
         IN  IF data # <<>> THEN Append(responses, data) ELSE responses
    ELSE responses

\* CollectResponse with `sse_responses = [data]` for the append
CollectResponse_Replace(responses, line) ==
    IF StartsWith(line, DataPrefix)
    THEN LET data == Strip(SliceFrom(line, 5))
         IN  IF data # <<>> /\ ~StartsWith(data, HttpPrefix)
             THEN <<data>>
             ELSE responses
    ELSE responses

\* if line.startswith("data:"): data = line[5:].strip(); append unless http
CollectResponse(responses, line) ==
    IF StartsWith(line, DataPrefix)
    THEN LET data == Strip(SliceFrom(line, 5))
         IN  IF data # <<>> /\ ~StartsWith(data, HttpPrefix)
             THEN Append(responses, data)
             ELSE responses
    ELSE responses

\* sse_responses[0] read as sse_responses[-1]
LastResponse(responses) == responses[Len(responses)]

\* sse_responses[0]
FirstResponse(responses) == responses[1]

(***************************************************************************)
(* What the network may answer.                                            *)
(***************************************************************************)
\* the statuses of GET /sse
GetStatuses == {200, 401}

\* the statuses of POST /message
PostStatuses == {200, 202, 204, 500}

\* if response.status_code in [200, 202]
Accepted(status) == status \in {200, 202}

(***************************************************************************)
(* Bounds of the model.                                                    *)
(***************************************************************************)
\* the lines the server writes on one stream (test-mcp-sse.py: the lines that
\* are not empty)
MaxLines == 2

\* test-mcp-sse.py: the reads of the stream, empty lines included
MaxLineCount == 22

\* test_mcp_client.py: the events the server writes on one stream
MaxEvents == 2

(***************************************************************************)
(* Program constants.                                                      *)
(***************************************************************************)
\* for i in range(10): if sse_connected: break
ConnectPolls == 10

\* for i in range(10): if session_id: break
SessionPolls == 10

\* for i in range(10): if sse_responses: break
ResponsePolls == 10

\* test-mcp-sse.py: for i in range(20): if session_id: break
SessionPollsV1 == 20

\* test-mcp-sse.py: if session_id and line_count > 20: break
LineCutoff == 20

VARIABLES
    script,         \* which of the three scripts runs
    scenario,       \* the server plays the handshake scenario
    line,           \* the line a listener step is applied to on its own
    \* the listener thread and the globals it writes
    lpc,            \* "idle", "get", "read", "done"
    session_id,     \* None or the text of the token
    sse_responses,  \* the list of payloads
    sse_connected,  \* the flag of test-mcp-sse-v2.py
    line_count,     \* the listener's local
    eof,            \* the stream has ended
    delivered,      \* test-mcp-sse.py: the lines read that were not empty
    \* the main thread
    pc,             \* the place of the main thread
    i,              \* the loop variable of the wait it is in
    status,         \* the status of the POST, 0 before it
    result,         \* the parsed response, NoValue before it
    result_from,    \* where `result` was read from: "none", "sse", "post_body"
    success,        \* what test_mcp_flow returned: "none", "True", "False"
    exit_code,      \* sys.exit's argument, -1 while the process runs
    \* history of the run
    gets,           \* the GETs issued (of /sse, and of the client's checks)
    get_status,     \* the status of the GET of /sse, 0 when it has none
    posts,          \* the POSTs of /message issued
    queue_reads,    \* the reads of sse_responses by the main thread
    post_len,       \* len(sse_responses) when the POST was issued
    seen,           \* sse_responses as the main thread last read it
    failed_at,      \* why the last call reported failure, "none" before
    \* test_mcp_client.py
    results,        \* main's list of the checks' results
    sse_success,    \* what test_sse_connection returned, first part
    message_url,    \* what test_sse_connection returned, second part
    events          \* the events the server wrote on the stream of /sse

listenerVars == <<lpc, session_id, sse_responses, sse_connected, line_count, eof,
                  delivered, gets, get_status>>

mainVars == <<pc, i, status, result, result_from, success, exit_code, posts, queue_reads,
              post_len, seen, failed_at>>

clientVars == <<results, sse_success, message_url, events>>

vars == <<script, scenario, line, listenerVars, mainVars, clientVars>>

Scripts == {"sse", "sse_v2", "client"}

Init ==
    /\ script \in Scripts
    /\ scenario \in BOOLEAN
    /\ line = <<>>
    /\ lpc = "idle"
    /\ session_id = None
    /\ sse_responses = <<>>
    /\ sse_connected = FALSE
    /\ line_count = 0
    /\ eof = FALSE
    /\ delivered = 0
    /\ pc = (IF script = "client" THEN "health" ELSE "start")
    /\ i = 0
    /\ status = 0
    /\ result = NoValue
    /\ result_from = "none"
    /\ success = "none"
    /\ exit_code = -1
    /\ gets = 0
    /\ get_status = 0
    /\ posts = 0
    /\ queue_reads = 0
    /\ post_len = 0
    /\ seen = <<>>
    /\ failed_at = "none"
    /\ results = <<>>
    /\ sse_success = FALSE
    /\ message_url = None
    /\ events = <<>>

\* the next line of the scenario, when the server has one to write: it writes
\* the response when it has accepted the POST
ScenarioNextLines ==
    IF /\ line_count < Len(ScenarioLines)
       /\ line_count < ScenarioHandshakeLines \/ Accepted(status)
    THEN {ScenarioLines[line_count + 1]}
    ELSE {}

\* test-mcp-sse-v2.py: the lines iter_lines may give next
V2_NextLines ==
    IF scenario THEN ScenarioNextLines
    ELSE IF line_count < MaxLines THEN StreamLines
    ELSE {}

\* test-mcp-sse.py: the lines readline may give next
V1_NextLines ==
    IF scenario THEN ScenarioNextLines
    ELSE IF line_count < MaxLineCount
    THEN {raw \in StreamLines : raw # LineBlank => delivered < MaxLines}
    ELSE {}

\* the listener is a daemon thread: it runs until the process exits
Running == exit_code = -1

\* ReturnFalse with the failure raised out of test_mcp_flow, nothing returned
ReturnFalse_Raise(where) ==
    /\ success' = success
    /\ failed_at' = where
    /\ pc' = "returned"
    /\ i' = 0

\* return False from test_mcp_flow at step `where`
ReturnFalse(where) ==
    /\ success' = "False"
    /\ failed_at' = where
    /\ pc' = "returned"
    /\ i' = 0

(***************************************************************************)
(* test-mcp-sse-v2.py: sse_listener                                        *)
(***************************************************************************)
\* V2_ListenerGet without `sse_connected = True`
V2_ListenerGet_NoFlag ==
    /\ script = "sse_v2"
    /\ Running
    /\ lpc = "get"
    /\ gets' = gets + 1
    /\ \/ \E st \in GetStatuses :
            /\ get_status' = st
            /\ lpc' = "read"
            /\ UNCHANGED sse_connected
       \/ \* requests.exceptions.Timeout, or any other exception
          /\ lpc' = "done"
          /\ UNCHANGED <<sse_connected, get_status>>
    /\ UNCHANGED <<script, scenario, line, clientVars, session_id,
                   sse_responses, line_count, eof, delivered, mainVars>>

\* requests.get(...): any status is a response; then sse_connected = True
V2_ListenerGet ==
    /\ script = "sse_v2"
    /\ Running
    /\ lpc = "get"
    /\ gets' = gets + 1
    /\ \/ \E st \in GetStatuses :
            /\ get_status' = st
            /\ sse_connected' = TRUE
            /\ lpc' = "read"
       \/ \* requests.exceptions.Timeout, or any other exception
          /\ lpc' = "done"
          /\ UNCHANGED <<sse_connected, get_status>>
    /\ UNCHANGED <<script, scenario, line, clientVars, session_id, sse_responses, line_count,
                   eof, delivered, mainVars>>

\* one turn of `for line in response.iter_lines(decode_unicode=True)`
V2_ListenerLine ==
    /\ script = "sse_v2"
    /\ Running
    /\ lpc = "read"
    /\ \E raw \in V2_NextLines :
          LET stripped == Strip(raw)
          IN  /\ line_count' = line_count + 1
              /\ session_id' = ExtractSessionId(session_id, stripped)
              /\ sse_responses' = CollectResponse(sse_responses, stripped)
    /\ UNCHANGED <<script, scenario, line, clientVars, lpc, sse_connected, eof, delivered,
                   gets, get_status, mainVars>>

\* the stream ends (the loop is left), or reading it raises
V2_ListenerEnd ==
    /\ script = "sse_v2"
    /\ Running
    /\ lpc = "read"
    /\ lpc' = "done"
    /\ eof' = TRUE
    /\ UNCHANGED <<script, scenario, line, clientVars, session_id, sse_responses,
                   sse_connected, line_count, delivered, gets, get_status,
                   mainVars>>

(***************************************************************************)
(* test-mcp-sse-v2.py: test_mcp_flow and main                              *)
(***************************************************************************)
\* sse_thread.start()
V2_Start ==
    /\ script = "sse_v2"
    /\ pc = "start"
    /\ lpc' = "get"
    /\ pc' = "wait_connected"
    /\ i' = 0
    /\ UNCHANGED <<script, scenario, line, clientVars, session_id, sse_responses,
                   sse_connected, line_count, eof, delivered, gets,
                   get_status, status, result, result_from, success,
                   exit_code, posts, queue_reads, post_len, seen, failed_at>>

\* for i in range(10): if sse_connected: break; time.sleep(0.5)
V2_WaitConnected ==
    /\ script = "sse_v2"
    /\ pc = "wait_connected"
    /\ IF sse_connected \/ i + 1 >= ConnectPolls
       THEN pc' = "check_connected" /\ i' = 0
       ELSE pc' = pc /\ i' = i + 1
    /\ UNCHANGED <<script, scenario, line, clientVars, listenerVars, status, result,
                   result_from, success, exit_code, posts, queue_reads,
                   post_len, seen, failed_at>>

\* if not sse_connected: return False
V2_CheckConnected ==
    /\ script = "sse_v2"
    /\ pc = "check_connected"
    /\ IF ~sse_connected
       THEN ReturnFalse("connect")
       ELSE /\ pc' = "wait_session"
            /\ i' = 0
            /\ UNCHANGED <<success, failed_at>>
    /\ UNCHANGED <<script, scenario, line, clientVars, listenerVars, status, result,
                   result_from, exit_code, posts, queue_reads, post_len,
                   seen>>

\* V2_WaitSession as `while not session_id: time.sleep(0.5)`
V2_WaitSession_Unbounded ==
    /\ script = "sse_v2"
    /\ pc = "wait_session"
    /\ session_id # None
    /\ pc' = "check_session"
    /\ i' = 0
    /\ UNCHANGED <<script, scenario, line, clientVars, listenerVars, status, result,
                   result_from, success, exit_code, posts, queue_reads,
                   post_len, seen, failed_at>>

\* for i in range(10): if session_id: break; time.sleep(0.5)
V2_WaitSession ==
    /\ script = "sse_v2"
    /\ pc = "wait_session"
    /\ IF session_id # None \/ i + 1 >= SessionPolls
       THEN pc' = "check_session" /\ i' = 0
       ELSE pc' = pc /\ i' = i + 1
    /\ UNCHANGED <<script, scenario, line, clientVars, listenerVars, status, result,
                   result_from, success, exit_code, posts, queue_reads,
                   post_len, seen, failed_at>>

\* V2_CheckSession without its early return
V2_CheckSession_NoAbort ==
    /\ script = "sse_v2"
    /\ pc = "check_session"
    /\ pc' = "post"
    /\ i' = 0
    /\ UNCHANGED <<script, scenario, line, clientVars, listenerVars, status, result,
                   result_from, success, exit_code, posts, queue_reads,
                   post_len, seen, failed_at>>

\* if not session_id: return False
V2_CheckSession ==
    /\ script = "sse_v2"
    /\ pc = "check_session"
    /\ IF session_id = None
       THEN ReturnFalse("session")
       ELSE /\ pc' = "post"
            /\ i' = 0
            /\ UNCHANGED <<success, failed_at>>
    /\ UNCHANGED <<script, scenario, line, clientVars, listenerVars, status, result,
                   result_from, exit_code, posts, queue_reads, post_len,
                   seen>>

\* V2_Post with the POST issued again after a first rejected status
V2_Post_Retry ==
    /\ script = "sse_v2"
    /\ pc = "post"
    /\ posts' = posts + 1
    /\ post_len' = Len(sse_responses)
    /\ \/ \E st \in PostStatuses :
            /\ status' = st
            /\ IF Accepted(st)
               THEN /\ pc' = "wait_response"
                    /\ i' = 0
                    /\ UNCHANGED <<success, failed_at>>
               ELSE IF posts = 0
               THEN UNCHANGED <<pc, i, success, failed_at>>
               ELSE ReturnFalse("status")
       \/ \* requests.post raises: except Exception
          /\ ReturnFalse("post_exception")
          /\ UNCHANGED status
    /\ UNCHANGED <<script, scenario, line, clientVars, listenerVars, result,
                   result_from, exit_code, queue_reads, seen>>

\* requests.post(...), then `if response.status_code in [200, 202]`
V2_Post ==
    /\ script = "sse_v2"
    /\ pc = "post"
    /\ posts' = posts + 1
    /\ post_len' = Len(sse_responses)
    /\ \/ \E st \in PostStatuses :
            /\ status' = st
            /\ IF Accepted(st)
               THEN /\ pc' = "wait_response"
                    /\ i' = 0
                    /\ UNCHANGED <<success, failed_at>>
               ELSE ReturnFalse("status")
       \/ \* requests.post raises: except Exception
          /\ ReturnFalse("post_exception")
          /\ UNCHANGED status
    /\ UNCHANGED <<script, scenario, line, clientVars, listenerVars, result, result_from,
                   exit_code, queue_reads, seen>>

\* for i in range(10): if sse_responses: break; time.sleep(0.5)
V2_WaitResponse ==
    /\ script = "sse_v2"
    /\ pc = "wait_response"
    /\ queue_reads' = queue_reads + 1
    /\ seen' = sse_responses
    /\ IF sse_responses # <<>> \/ i + 1 >= ResponsePolls
       THEN pc' = "check_response" /\ i' = 0
       ELSE pc' = pc /\ i' = i + 1
    /\ UNCHANGED <<script, scenario, line, clientVars, listenerVars, status, result,
                   result_from, success, exit_code, posts, post_len,
                   failed_at>>

\* if sse_responses: result = json.loads(sse_responses[0]) ... else: return False
V2_CheckResponse ==
    /\ script = "sse_v2"
    /\ pc = "check_response"
    /\ queue_reads' = queue_reads + 1
    /\ seen' = sse_responses
    /\ IF sse_responses = <<>>
       THEN /\ ReturnFalse("no_response")
            /\ UNCHANGED <<result, result_from>>
       ELSE \E parsed \in {json_loads(FirstResponse(sse_responses))} :
                IF parsed = JSONDecodeError
                THEN /\ ReturnFalse("exception")
                     /\ UNCHANGED <<result, result_from>>
                ELSE /\ result' = parsed
                     /\ result_from' = "sse"
                     /\ IF ToolsListOutcome(parsed) = "success"
                        THEN /\ success' = "True"
                             /\ pc' = "returned"
                             /\ i' = 0
                             /\ UNCHANGED failed_at
                        ELSE ReturnFalse(ToolsListOutcome(parsed))
    /\ UNCHANGED <<script, scenario, line, clientVars, listenerVars, status, exit_code,
                   posts, post_len>>

\* sys.exit(0 if success else 1)
V2_Exit ==
    /\ script = "sse_v2"
    /\ pc = "returned"
    /\ exit_code' = (IF success = "True" THEN 0 ELSE 1)
    /\ pc' = "exited"
    /\ UNCHANGED <<script, scenario, line, clientVars, listenerVars, i, status, result,
                   result_from, success, posts, queue_reads, post_len, seen,
                   failed_at>>

V2_Listener == V2_ListenerGet \/ V2_ListenerLine \/ V2_ListenerEnd

V2_Main ==
    \/ V2_Start
    \/ V2_WaitConnected
    \/ V2_CheckConnected
    \/ V2_WaitSession
    \/ V2_CheckSession
    \/ V2_Post
    \/ V2_WaitResponse
    \/ V2_CheckResponse
    \/ V2_Exit

(***************************************************************************)
(* test-mcp-sse.py: sse_listener                                           *)
(***************************************************************************)
\* urlopen(req, ...): a status that is not 2xx raises HTTPError, caught by
\* `except Exception`
V1_ListenerOpen ==
    /\ script = "sse"
    /\ Running
    /\ lpc = "get"
    /\ gets' = gets + 1
    /\ \/ \E st \in GetStatuses :
            /\ get_status' = st
            /\ lpc' = (IF st \in 200..299 THEN "read" ELSE "done")
       \/ \* URLError, timeout
          /\ lpc' = "done"
          /\ UNCHANGED get_status
    /\ UNCHANGED <<script, scenario, line, clientVars, session_id, sse_responses,
                   sse_connected, line_count, eof, delivered, mainVars>>

\* if session_id and line_count > 20: break
CutoffReached(sid, count) == sid # None /\ count > LineCutoff

\* one turn of `while True` on a line the server wrote
V1_ListenerLine ==
    /\ script = "sse"
    /\ Running
    /\ lpc = "read"
    /\ ~eof
    /\ \E raw \in V1_NextLines :
          LET stripped == Strip(raw)
          IN  /\ delivered' = (IF raw # LineBlank THEN delivered + 1 ELSE delivered)
              /\ line_count' = line_count + 1
              /\ IF stripped = <<>>
                 THEN \* if not line: continue
                      UNCHANGED <<session_id, sse_responses, lpc>>
                 ELSE /\ session_id' = ExtractSessionId(session_id, stripped)
                      /\ sse_responses' =
                            CollectResponse(sse_responses, stripped)
                      /\ lpc' = (IF CutoffReached(session_id', line_count')
                                 THEN "done" ELSE "read")
    /\ UNCHANGED <<script, scenario, line, clientVars, sse_connected, eof, gets, get_status,
                   mainVars>>

\* one turn of `while True` at the end of the stream: readline() returns b''
V1_ListenerEof ==
    /\ script = "sse"
    /\ Running
    /\ lpc = "read"
    /\ line_count < MaxLineCount
    /\ eof' = TRUE
    /\ line_count' = line_count + 1
    /\ UNCHANGED <<script, scenario, line, clientVars, lpc, session_id, sse_responses,
                   sse_connected, delivered, gets, get_status, mainVars>>

\* readline() raises (the 30 s timeout, a reset): except Exception
V1_ListenerError ==
    /\ script = "sse"
    /\ Running
    /\ lpc = "read"
    /\ ~eof
    /\ lpc' = "done"
    /\ UNCHANGED <<script, scenario, line, clientVars, session_id, sse_responses,
                   sse_connected, line_count, eof, delivered, gets,
                   get_status, mainVars>>

(***************************************************************************)
(* test-mcp-sse.py: test_mcp_flow and main                                 *)
(***************************************************************************)
\* sse_thread.start()
V1_Start ==
    /\ script = "sse"
    /\ pc = "start"
    /\ lpc' = "get"
    /\ pc' = "wait_session"
    /\ i' = 0
    /\ UNCHANGED <<script, scenario, line, clientVars, session_id, sse_responses,
                   sse_connected, line_count, eof, delivered, gets,
                   get_status, status, result, result_from, success,
                   exit_code, posts, queue_reads, post_len, seen, failed_at>>

\* for i in range(20): if session_id: break; time.sleep(0.5)
V1_WaitSession ==
    /\ script = "sse"
    /\ pc = "wait_session"
    /\ IF session_id # None \/ i + 1 >= SessionPollsV1
       THEN pc' = "check_session" /\ i' = 0
       ELSE pc' = pc /\ i' = i + 1
    /\ UNCHANGED <<script, scenario, line, clientVars, listenerVars, status, result,
                   result_from, success, exit_code, posts, queue_reads,
                   post_len, seen, failed_at>>

\* if not session_id: return False
V1_CheckSession ==
    /\ script = "sse"
    /\ pc = "check_session"
    /\ IF session_id = None
       THEN ReturnFalse("session")
       ELSE /\ pc' = "post"
            /\ i' = 0
            /\ UNCHANGED <<success, failed_at>>
    /\ UNCHANGED <<script, scenario, line, clientVars, listenerVars, status, result,
                   result_from, exit_code, posts, queue_reads, post_len,
                   seen>>

\* with urlopen(req, ...) as response: a status that is not 2xx raises
\* HTTPError; then `if status == 202 or status == 200`, then time.sleep(2)
V1_Post ==
    /\ script = "sse"
    /\ pc = "post"
    /\ posts' = posts + 1
    /\ post_len' = Len(sse_responses)
    /\ \/ \E st \in PostStatuses :
            /\ status' = st
            /\ IF st \notin 200..299
               THEN ReturnFalse("http_error")
               ELSE IF st = 202 \/ st = 200
               THEN /\ pc' = "check_response"
                    /\ i' = 0
                    /\ UNCHANGED <<success, failed_at>>
               ELSE ReturnFalse("status")
       \/ \* urlopen raises something else: except Exception
          /\ ReturnFalse("post_exception")
          /\ UNCHANGED status
    /\ UNCHANGED <<script, scenario, line, clientVars, listenerVars, result, result_from,
                   exit_code, queue_reads, seen>>

\* if sse_responses: result = json.loads(sse_responses[0]) ... else: return False
V1_CheckResponse ==
    /\ script = "sse"
    /\ pc = "check_response"
    /\ queue_reads' = queue_reads + 1
    /\ seen' = sse_responses
    /\ IF sse_responses = <<>>
       THEN /\ ReturnFalse("no_response")
            /\ UNCHANGED <<result, result_from>>
       ELSE \E parsed \in {json_loads(FirstResponse(sse_responses))} :
                IF parsed = JSONDecodeError
                THEN /\ ReturnFalse("exception")
                     /\ UNCHANGED <<result, result_from>>
                ELSE /\ result' = parsed
                     /\ result_from' = "sse"
                     /\ IF ToolsListOutcome(parsed) = "success"
                        THEN /\ success' = "True"
                             /\ pc' = "returned"
                             /\ i' = 0
                             /\ UNCHANGED failed_at
                        ELSE ReturnFalse(ToolsListOutcome(parsed))
    /\ UNCHANGED <<script, scenario, line, clientVars, listenerVars, status, exit_code,
                   posts, post_len>>

\* sys.exit(0 if success else 1)
V1_Exit ==
    /\ script = "sse"
    /\ pc = "returned"
    /\ exit_code' = (IF success = "True" THEN 0 ELSE 1)
    /\ pc' = "exited"
    /\ UNCHANGED <<script, scenario, line, clientVars, listenerVars, i, status, result,
                   result_from, success, posts, queue_reads, post_len, seen,
                   failed_at>>

V1_Listener ==
    \/ V1_ListenerOpen
    \/ V1_ListenerLine
    \/ V1_ListenerEof
    \/ V1_ListenerError

V1_Main ==
    \/ V1_Start
    \/ V1_WaitSession
    \/ V1_CheckSession
    \/ V1_Post
    \/ V1_CheckResponse
    \/ V1_Exit

(***************************************************************************)
(* test_mcp_client.py: main and the six checks                             *)
(***************************************************************************)
\* the streams of at most MaxEvents events
EventStreams ==
    UNION {[1..n -> ClientEvents] : n \in 0..MaxEvents}

\* results.append((name, passed)), and on to the next check
Record(passed, next) ==
    /\ results' = Append(results, passed)
    /\ pc' = next

\* results.append(("Health Check", test_health()))
Client_Health ==
    /\ script = "client"
    /\ pc = "health"
    /\ gets' = gets + 1
    /\ \/ \E st \in CheckStatuses, body \in CheckBodies :
            Record(HealthPasses(st, body), "status_without_auth")
       \/ \* requests.get raises
          Record(FALSE, "status_without_auth")
    /\ UNCHANGED <<script, scenario, line, lpc, session_id, sse_responses,
                   sse_connected, line_count, eof, delivered, get_status,
                   i, status, result, result_from, success, exit_code, posts, queue_reads, post_len, seen,
                   failed_at, sse_success, message_url, events>>

\* results.append(("Auth Rejection", test_status_without_auth()))
Client_StatusWithoutAuth ==
    /\ script = "client"
    /\ pc = "status_without_auth"
    /\ gets' = gets + 1
    /\ \/ \E st \in CheckStatuses :
            Record(StatusWithoutAuthPasses(st), "status_with_auth")
       \/ \* requests.get raises
          Record(FALSE, "status_with_auth")
    /\ UNCHANGED <<script, scenario, line, lpc, session_id, sse_responses,
                   sse_connected, line_count, eof, delivered, get_status,
                   i, status, result, result_from, success, exit_code, posts, queue_reads, post_len, seen,
                   failed_at, sse_success, message_url, events>>

\* results.append(("Auth Success", test_status_with_auth()))
Client_StatusWithAuth ==
    /\ script = "client"
    /\ pc = "status_with_auth"
    /\ gets' = gets + 1
    /\ \/ \E st \in CheckStatuses, body \in CheckBodies :
            Record(StatusWithAuthPasses(st, body), "sse")
       \/ \* requests.get raises
          Record(FALSE, "sse")
    /\ UNCHANGED <<script, scenario, line, lpc, session_id, sse_responses,
                   sse_connected, line_count, eof, delivered, get_status,
                   i, status, result, result_from, success, exit_code, posts, queue_reads, post_len, seen,
                   failed_at, sse_success, message_url, events>>

\* message_url = event.data.strip()
EndpointUrl_Stripped(event) == Strip(event.data)

\* message_url = event.data
EndpointUrl(event) == event.data

\* test_sse_connection on a stream of events: the loop looks at the first event
\* and returns, or breaks
SseConnectionResult(stream) ==
    IF stream # <<>> /\ stream[1].event = "endpoint"
    THEN <<TRUE, EndpointUrl(stream[1])>>
    ELSE <<FALSE, None>>

\* if sse_success and message_url: ... else: "Skipping RPC tests"
AfterSse(ok, url) == IF ok /\ Truthy(url) THEN "rpc" ELSE "summary"

\* sse_success, message_url = test_sse_connection();
\* results.append(("SSE Connection", sse_success))
Client_Sse ==
    /\ script = "client"
    /\ pc = "sse"
    /\ gets' = gets + 1
    /\ \/ \E stream \in (IF scenario THEN {ScenarioEvents} ELSE EventStreams) :
            \* status 200; the stream may end, or time out, after its events
            LET r == SseConnectionResult(stream)
            IN  /\ get_status' = 200
                /\ events' = stream
                /\ sse_success' = r[1]
                /\ message_url' = r[2]
                /\ Record(r[1], AfterSse(r[1], r[2]))
       \/ \E st \in CheckStatuses \ {200} :
            \* if response.status_code != 200: return False, None
            /\ get_status' = st
            /\ Record(FALSE, AfterSse(FALSE, None))
            /\ UNCHANGED <<sse_success, message_url, events>>
       \/ \* requests.get raises
          /\ Record(FALSE, AfterSse(FALSE, None))
          /\ UNCHANGED <<sse_success, message_url, events, get_status>>
    /\ UNCHANGED <<script, scenario, line, lpc, session_id, sse_responses, sse_connected,
                   line_count, eof, delivered, i, status, result,
                   result_from, success, exit_code, posts, queue_reads,
                   post_len, seen, failed_at>>

\* results.append(("RPC List Tools", test_mcp_rpc_call(message_url)))
Client_RpcCall ==
    /\ script = "client"
    /\ pc = "rpc"
    /\ posts' = posts + 1
    /\ \/ \E st \in PostStatuses, body \in PostBodies :
            LET outcome == RpcCallOutcome(st, body)
            IN  /\ status' = st
                /\ IF outcome \in {"exception", "status"}
                   THEN UNCHANGED <<result, result_from>>
                   ELSE /\ result' = json_loads(body)
                        /\ result_from' = "post_body"
                /\ failed_at' = (IF outcome = "success" THEN "none" ELSE outcome)
                /\ Record(outcome = "success", "get_sensors")
       \/ \* requests.post raises
          /\ failed_at' = "post_exception"
          /\ Record(FALSE, "get_sensors")
          /\ UNCHANGED <<status, result, result_from>>
    /\ UNCHANGED <<script, scenario, line, listenerVars, i, success, exit_code, queue_reads,
                   post_len, seen, sse_success, message_url, events>>

\* results.append(("RPC Get Sensors", test_mcp_get_sensors(message_url)))
Client_GetSensors ==
    /\ script = "client"
    /\ pc = "get_sensors"
    /\ posts' = posts + 1
    /\ \/ \E st \in PostStatuses, body \in PostBodies :
            LET outcome == GetSensorsOutcome(st, body)
                passed == outcome \in {"success", "success_error"}
            IN  /\ status' = st
                /\ IF outcome \in {"exception", "status"}
                   THEN UNCHANGED <<result, result_from>>
                   ELSE /\ result' = json_loads(body)
                        /\ result_from' = "post_body"
                /\ failed_at' = (IF passed THEN "none" ELSE outcome)
                /\ Record(passed, "summary")
       \/ \* requests.post raises
          /\ failed_at' = "post_exception"
          /\ Record(FALSE, "summary")
          /\ UNCHANGED <<status, result, result_from>>
    /\ UNCHANGED <<script, scenario, line, listenerVars, i, success, exit_code, queue_reads,
                   post_len, seen, sse_success, message_url, events>>

\* passed = sum(1 for _, result in results if result); total = len(results)
AllPassed(rs) == \A k \in 1..Len(rs) : rs[k]

\* return 0 if passed == total else 1, then sys.exit(main())
Client_Summary ==
    /\ script = "client"
    /\ pc = "summary"
    /\ exit_code' = (IF AllPassed(results) THEN 0 ELSE 1)
    /\ pc' = "exited"
    /\ UNCHANGED <<script, scenario, line, clientVars, listenerVars, i, status, result,
                   result_from, success, posts, queue_reads, post_len, seen,
                   failed_at>>

\* except KeyboardInterrupt: sys.exit(130)
Client_Interrupt ==
    /\ script = "client"
    /\ pc # "exited"
    /\ exit_code' = 130
    /\ pc' = "exited"
    /\ failed_at' = "interrupt"
    /\ UNCHANGED <<script, scenario, line, clientVars, listenerVars, i, status, result,
                   result_from, success, posts, queue_reads, post_len, seen>>

\* except Exception as e: print_error(f"Fatal error: {e}"); sys.exit(1)
Client_Fatal ==
    /\ script = "client"
    /\ pc # "exited"
    /\ exit_code' = 1
    /\ pc' = "exited"
    /\ failed_at' = "fatal"
    /\ UNCHANGED <<script, scenario, line, clientVars, listenerVars, i, status, result,
                   result_from, success, posts, queue_reads, post_len, seen>>

Client_Main ==
    \/ Client_Health
    \/ Client_StatusWithoutAuth
    \/ Client_StatusWithAuth
    \/ Client_Sse
    \/ Client_RpcCall
    \/ Client_GetSensors
    \/ Client_Summary
    \/ Client_Interrupt
    \/ Client_Fatal

(***************************************************************************)
(* The listener's work on one line, applied on its own to every line of    *)
(* UnitLines, with and without a session id and a queued payload before    *)
(* it ("unit").                                                            *)
(***************************************************************************)
\* the characters of the tokens tried: hexadecimal digits of both cases, the
\* hyphen, and a letter that is no hexadecimal digit
UnitTokenChars == {"a", "0", "-", "B", "g"}

\* the longest token tried
MaxTokenLen == 2

UnitTokens == UNION {[1..n -> UnitTokenChars] : n \in 1..MaxTokenLen}

\* what precedes `sessionId=` in the line
UnitPrefixes == {<<>>, <<"d", "a", "t", "a", ":", " ", "/", "m", "?">>, <<"x", " ">>}

\* what follows the token in the line
UnitSuffixes == {<<>>, <<"&", "x">>}

\* the lines that carry no session id
UnitDataLines ==
    {<<"d", "a", "t", "a", ":", " ", "h", "t", "t", "p", ":", "/", "/", "h", "/", "m">>,
     <<"d", "a", "t", "a", ":", " ", "h", "t", "t", "p", "s", ":", "/", "/", "h", "/", "m">>,
     <<"d", "a", "t", "a", ":", " ", "h", "t", "t", "p", "d">>,
     <<"d", "a", "t", "a", ":", " ", "f", "t", "p", ":", "/", "/", "h">>,
     <<"d", "a", "t", "a", ":", " ", "/", "m">>,
     <<"d", "a", "t", "a", ":">>,
     <<"d", "a", "t", "a", ":", " ", " ", " ">>,
     <<"d", "a", "t", "a", ":", "{", "\"", "i", "d", "\"", ":", "1", "}">>,
     <<"e", "v", "e", "n", "t", ":", " ", "e", "n", "d", "p", "o", "i", "n", "t">>,
     <<" ", " ", "d", "a", "t", "a", ":", " ", "o", "k", " ", " ">>}

UnitLines ==
    {pre \o SessionIdKey \o tok \o suf :
        pre \in UnitPrefixes, tok \in UnitTokens, suf \in UnitSuffixes}
    \cup UnitDataLines

UnitInit ==
    /\ script = "unit"
    /\ scenario = FALSE
    /\ line \in UnitLines
    /\ lpc = "read"
    /\ session_id \in {None, <<"e">>}
    /\ sse_responses \in {<<>>, <<(<<"{", "}">>)>>}
    /\ sse_connected = TRUE
    /\ line_count = 0
    /\ eof = FALSE
    /\ delivered = 0
    /\ pc = "start"
    /\ i = 0
    /\ status = 0
    /\ result = NoValue
    /\ result_from = "none"
    /\ success = "none"
    /\ exit_code = -1
    /\ gets = 1
    /\ get_status = 200
    /\ posts = 0
    /\ queue_reads = 0
    /\ post_len = 0
    /\ seen = <<>>
    /\ failed_at = "none"
    /\ results = <<>>
    /\ sse_success = FALSE
    /\ message_url = None
    /\ events = <<>>

\* line = line.strip(); line_count += 1; the extraction; the collection
Unit_Line ==
    /\ script = "unit"
    /\ line_count = 0
    /\ line_count' = line_count + 1
    /\ session_id' = ExtractSessionId(session_id, Strip(line))
    /\ sse_responses' = CollectResponse(sse_responses, Strip(line))
    /\ UNCHANGED <<script, scenario, line, clientVars, lpc, sse_connected,
                   eof, delivered, gets, get_status, mainVars>>

UnitSpec == UnitInit /\ [][Unit_Line]_vars

Next == V1_Listener \/ V1_Main \/ V2_Listener \/ V2_Main \/ Client_Main

Spec == Init /\ [][Next]_vars

\* the main thread is scheduled until test_mcp_flow returns: its sleeps end and
\* its POST returns or times out (timeout=10)
FairSpec == Spec /\ WF_vars(V1_Main) /\ WF_vars(V2_Main)

(***************************************************************************)
(* The claims.                                                             *)
(***************************************************************************)
Threaded == script \in {"sse", "sse_v2"}

Returned == pc \in {"returned", "exited"}

\* C1: no POST of the message endpoint is issued before a session handle (a
\* non-empty session id, or a non-empty message URL in test_mcp_client.py)
\* was obtained; a run whose connection wait or session wait was exhausted,
\* or that ended without a handle, reported failure and issued no POST.
C1_NoPostWithoutHandle ==
    /\ posts > 0 =>
          IF script = "client"
          THEN sse_success /\ Truthy(message_url)
          ELSE Truthy(session_id)
    /\ failed_at \in {"connect", "session"} => success = "False" /\ posts = 0
    /\ Threaded /\ Returned /\ session_id = None =>
          success = "False" /\ posts = 0
    /\ script = "client" /\ pc = "summary" /\ ~Truthy(message_url) =>
          posts = 0 /\ Len(results) = 4

\* the session wait was exhausted while the listener was connected and
\* reading: the flow returned False and no POST was issued
C1_Witness ==
    /\ script = "sse_v2"
    /\ failed_at = "session"
    /\ sse_connected
    /\ lpc = "read"
    /\ posts = 0
    /\ success = "False"

\* the last check main recorded failed
LastCheckFailed == results # <<>> /\ ~results[Len(results)]

\* C2: a POST answered with a status other than 200 or 202 makes the call
\* report failure without reading the response queue; a POST answered with
\* 200 or 202 is accepted, not rejected for its status (every script).
C2_StatusDecidesAcceptance ==
    status # 0 =>
       /\ ~Accepted(status) =>
             /\ queue_reads = 0
             /\ IF script = "client" THEN LastCheckFailed
                ELSE Returned /\ success = "False"
       /\ Accepted(status) => failed_at \notin {"status", "http_error"}

\* a payload that parses to a JSON-RPC response with the id of the request
Matching(payload) ==
    LET v == json_loads(payload)
    IN  /\ v # JSONDecodeError
        /\ v.t = "obj"
        /\ ObjHas(v, KeyId)
        /\ ObjGet(v, KeyId).t = "num"
        /\ ObjGet(v, KeyId).v = 1

\* the places of the queue, as the main thread last read it, that hold a
\* matching response delivered after the POST
MatchingAfterPost == {k \in (post_len + 1)..Len(seen) : Matching(seen[k])}

\* C3: when a matching response (same id) was delivered over the stream after
\* the POST, the result the flow reports is that response, whatever other
\* payloads the stream delivered before the POST.
C3_MatchingResponseReported ==
    Threaded /\ Returned /\ Accepted(status) /\ MatchingAfterPost # {} =>
       LET k == CHOOSE m \in MatchingAfterPost :
                    \A n \in MatchingAfterPost : m <= n
       IN  result = json_loads(seen[k])

\* C4: in every script the response that is reported is a payload of the SSE
\* stream, never the body of the POST's own HTTP response.
C4_ResponseFromStream == result_from \in {"none", "sse"}

\* C5: test_mcp_flow terminates: whatever the server and the listener do, the
\* flow returns True or False.
C5_FlowTerminates == Threaded => <>(success # "none")

\* the flow returned although the listener never got its connection
C5_Witness ==
    /\ script = "sse_v2"
    /\ success = "False"
    /\ failed_at = "connect"
    /\ lpc = "get"

\* C6: once the listener has published a session id, the session id never
\* changes.
C6_FirstMatchWins == [][session_id # None => session_id' = session_id]_vars

\* the id of the first line is published, and the line with the other id was
\* read after it (its payload is in the queue)
C6_Witness ==
    /\ session_id = SearchSessionId(LineSessionUrl)
    /\ \E k \in 1..Len(sse_responses) :
          sse_responses[k] = Strip(SliceFrom(LineSessionPath, 5))

\* the endpoint events of a stream, by their places
EndpointPlaces(stream) == {k \in 1..Len(stream) : stream[k].event = "endpoint"}

\* C7, as stated: the published URL is the data of the first endpoint event of
\* the stream, also when events of other names precede it.
C7_FirstEndpointEventWins ==
    script = "client" /\ EndpointPlaces(events) # {} =>
       LET k == CHOOSE m \in EndpointPlaces(events) :
                    \A n \in EndpointPlaces(events) : m <= n
       IN  sse_success /\ message_url = events[k].data

\* C7, amended: test_sse_connection looks at the first event of the stream
\* only.  If it is an endpoint event the result is (True, its data verbatim),
\* whatever follows; if it has another name the result is (False, None), also
\* when an endpoint event follows.
C7_FirstEventDecides ==
    script = "client" /\ events # <<>> =>
       IF events[1].event = "endpoint"
       THEN sse_success /\ message_url = events[1].data
       ELSE ~sse_success /\ message_url = None

\* the first event is an endpoint event whose data starts with a space, and
\* another endpoint event follows
C7_Witness ==
    /\ script = "client"
    /\ Len(events) = 2
    /\ events[1] = [event |-> "endpoint", data |-> UrlOther]
    /\ events[2] = [event |-> "endpoint", data |-> UrlMessage]
    /\ message_url = UrlOther

\* C8: when the GET of /sse is answered with a non-success status the
\* listener stops: no connected flag, no line read, no session handle, no
\* response enqueued.
C8_FailedGetStops ==
    get_status # 0 /\ get_status \notin 200..299 =>
       /\ ~sse_connected
       /\ line_count = 0
       /\ session_id = None
       /\ sse_responses = <<>>
       /\ ~sse_success
       /\ message_url = None

\* the parsed response has a `result` object that contains `tools`
HasResultWithTools(response) ==
    /\ response.t = "obj"
    /\ ObjHas(response, KeyResult)
    /\ ObjGet(response, KeyResult).t = "obj"
    /\ ObjHas(ObjGet(response, KeyResult), KeyTools)

\* the tools/list call has parsed its response and has returned
ToolsListDone ==
    /\ result_from # "none"
    /\ IF script = "client" THEN pc = "get_sensors" ELSE Returned

\* the tools/list call was reported as a success
ToolsListPassed ==
    IF script = "client" THEN results[Len(results)] ELSE success = "True"

\* C9: a tools/list call is reported as success if and only if the parsed
\* response has a `result` object that contains `tools`; every other shape
\* is reported as an unexpected-format failure.
C9_SuccessIffTools ==
    ToolsListDone =>
       /\ ToolsListPassed <=> HasResultWithTools(result)
       /\ ~HasResultWithTools(result) => failed_at = "unexpected_format"

\* the run succeeded: test_mcp_flow returned True; in test_mcp_client.py the
\* handshake was not skipped and every check passed
RunSucceeded ==
    IF script = "client"
    THEN Len(results) = 6 /\ AllPassed(results)
    ELSE success = "True"

\* C10: the exit code is 130 on user interrupt, 1 on an exception that
\* reaches the top level, and otherwise 0 exactly when the run succeeded and
\* 1 on any failure, a failed or skipped handshake included.
C10_ExitCode ==
    pc = "exited" =>
       exit_code = (IF failed_at = "interrupt" THEN 130
                    ELSE IF failed_at = "fatal" THEN 1
                    ELSE IF RunSucceeded THEN 0
                    ELSE 1)

\* the names of the tools that a parsed tools/list response lists
ListedTools(response) ==
    LET tools == ObjGet(ObjGet(response, KeyResult), KeyTools)
    IN  [k \in 1..Len(tools.v) |-> ObjGet(tools.v[k], KeyName).v]

\* the one tool of the scenario's response
ScenarioTools == <<(<<"t", "1">>)>>

\* C11, as stated: when the server plays the scenario (data event with the
\* sessionId URL, endpoint event with the message URL, response after the
\* accepted POST), each variant discovers its handle and the handshake
\* reports success listing the one tool t1.
C11_ScenarioSucceeds ==
    scenario =>
       /\ Threaded /\ Returned /\ seen # <<>> =>
             success = "True" /\ ListedTools(result) = ScenarioTools
       /\ script = "client" /\ events = ScenarioEvents =>
             sse_success /\ message_url = events[2].data

\* C11, amended: in test-mcp-sse.py and test-mcp-sse-v2.py the scenario
\* reports success listing the one tool t1 whenever the response is in the
\* queue when test_mcp_flow reads it; test_mcp_client.py, whose first event is
\* then the data event, reports that it received no endpoint event, records
\* the SSE check as failed and issues no POST.
C11_ScenarioByVariant ==
    scenario =>
       /\ Threaded /\ Returned /\ seen # <<>> =>
             success = "True" /\ ListedTools(result) = ScenarioTools
       /\ script = "client" /\ events = ScenarioEvents =>
             /\ ~sse_success
             /\ message_url = None
             /\ posts = 0
             /\ Len(results) >= 4 /\ ~results[4]

\* test-mcp-sse-v2.py has read the whole scenario and has reported success
C11_Witness ==
    /\ scenario
    /\ script = "sse_v2"
    /\ line_count = Len(ScenarioLines)
    /\ session_id = <<"a", "b", "c", "-", "1", "2", "3", "-", "d", "e", "f">>
    /\ posts = 1
    /\ success = "True"
    /\ ListedTools(result) = ScenarioTools

\* the hexadecimal digits, of either case, and the hyphen
HexTokenChars ==
    {"0", "1", "2", "3", "4", "5", "6", "7", "8", "9", "-",
     "a", "b", "c", "d", "e", "f", "A", "B", "C", "D", "E", "F"}

\* the last index of the run of hexadecimal digits and hyphens of s that
\* starts at index k
RECURSIVE HexTokenEnd(_, _)
HexTokenEnd(s, k) ==
    IF k + 1 <= Len(s) /\ s[k + 1] \in HexTokenChars
    THEN HexTokenEnd(s, k + 1)
    ELSE k

\* the indexes of s at which `sessionId=` is followed by a token
HexTokenStarts(s) ==
    {k \in 1..Len(s) : /\ MatchesAt(s, SessionIdKey, k)
                       /\ k + Len(SessionIdKey) <= Len(s)
                       /\ s[k + Len(SessionIdKey)] \in HexTokenChars}

\* the whole token of the first `sessionId=<token>` of s
HexToken(s) ==
    LET k == CHOOSE m \in HexTokenStarts(s) :
                 \A n \in HexTokenStarts(s) : m <= n
        b == k + Len(SessionIdKey)
    IN  SubSeq(s, b, HexTokenEnd(s, b))

\* C12: when no handle is captured yet and the line contains
\* `sessionId=<token>`, <token> a non-empty run of hexadecimal digits and
\* hyphens, wherever in the line, the listener publishes exactly <token>.
C12_WholeTokenPublished ==
    [][script = "unit" /\ session_id = None
          /\ HexTokenStarts(Strip(line)) # {}
       => session_id' = HexToken(Strip(line))]_vars

\* the letters of a URL scheme
SchemeChars ==
    {"a", "b", "c", "d", "e", "f", "g", "h", "i", "j", "k", "l", "m", "n",
     "o", "p", "q", "r", "s", "t", "u", "v", "w", "x", "y", "z"}

\* a payload that is a URL and nothing else: <scheme>://<rest>, without a
\* space in it
BareUrl(data) ==
    /\ \A k \in 1..Len(data) : data[k] \notin Whitespace
    /\ \E k \in 2..Len(data) :
          /\ \A j \in 1..(k - 1) : data[j] \in SchemeChars
          /\ MatchesAt(data, <<":", "/", "/">>, k)

\* what follows `data:` in a line, trimmed
Payload(text) == Strip(SliceFrom(text, 5))

\* C13: a line that begins with `data:` has its trimmed payload appended to
\* the response queue if and only if the payload is not empty and is not a
\* bare URL; a line that does not begin with `data:` leaves the queue as it
\* is.
C13_PayloadQueuedIffNotUrl ==
    [][script = "unit" =>
          sse_responses' =
             IF /\ StartsWith(Strip(line), DataPrefix)
                /\ Payload(Strip(line)) # <<>>
                /\ ~BareUrl(Payload(Strip(line)))
             THEN Append(sse_responses, Payload(Strip(line)))
             ELSE sse_responses]_vars

\* C14: the listener's read loop ends when the stream ends: once a read has
\* met the end of the stream the listener reads no more, instead of reading
\* forever.
C14_NoReadAfterEof == [][Threaded /\ eof => line_count' = line_count]_vars

\* C15: session_id, sse_responses and sse_connected are written by the
\* listener only: every step of test_mcp_flow and main leaves the three
\* unchanged. No step removes or reorders an entry of sse_responses: its
\* length never decreases and every entry it holds, the first included,
\* stays what it is.
C15_ListenerOwnsGlobals ==
    [][Threaded =>
          /\ V1_Main \/ V2_Main =>
                UNCHANGED <<session_id, sse_responses, sse_connected>>
          /\ Len(sse_responses') >= Len(sse_responses)
          /\ \A k \in 1..Len(sse_responses) :
                sse_responses'[k] = sse_responses[k]]_vars

\* C15 happens: the listener queued two payloads and found the session id,
\* and test_mcp_flow ran through its POST to its return beside it
C15_Witness ==
    /\ Threaded
    /\ Returned
    /\ posts = 1
    /\ session_id # None
    /\ Len(sse_responses) = 2

\* C16: once the POST is accepted, a read of sse_responses that finds it
\* empty before the wait is exhausted is followed by another read, a read
\* that finds it non-empty ends the wait, and the read after the wait
\* decides: of a non-empty list it parses the entry at index 0, whatever id
\* the entry carries, and presents it as the result (or fails on text that
\* is not JSON); of an empty list it reports 'No response received via SSE'.
C16_FirstEntryTaken ==
    [][Threaded /\ Accepted(status) /\ (V1_Main \/ V2_Main) =>
          /\ pc = "wait_response" =>
                /\ pc' = IF sse_responses # <<>> \/ i + 1 >= ResponsePolls
                         THEN "check_response"
                         ELSE "wait_response"
                /\ UNCHANGED <<success, result, failed_at>>
          /\ pc = "check_response" /\ sse_responses = <<>> =>
                /\ success' = "False"
                /\ failed_at' = "no_response"
                /\ UNCHANGED result
          /\ pc = "check_response" /\ sse_responses # <<>> =>
                LET first == json_loads(sse_responses[1])
                IN  /\ pc' = "returned"
                    /\ failed_at' # "no_response"
                    /\ IF first = JSONDecodeError
                       THEN success' = "False" /\ UNCHANGED result
                       ELSE result' = first /\ result_from' = "sse"]_vars

\* C16 happens: the queue held two payloads, the first of them without the
\* request's id, and the first was presented as the result
C16_Witness ==
    /\ Threaded
    /\ Returned
    /\ Accepted(status)
    /\ Len(seen) = 2
    /\ seen[1] # seen[2]
    /\ ~Matching(seen[1])
    /\ result_from = "sse"
    /\ result = json_loads(seen[1])

\* C17: nothing is tried again. In one run of test_mcp_flow the GET of /sse
\* is issued at most once and the POST at most once, whatever path the run
\* takes; in test_mcp_client.py every check that has recorded its result has
\* issued one request, the four GETs and the two POSTs once each at most.
C17_NoRetries ==
    /\ Threaded => gets <= 1 /\ posts <= 1
    /\ script = "client" =>
          /\ gets + posts = Len(results)
          /\ gets <= 4
          /\ posts <= 2

\* C17 happens: the GET was issued, the POST was rejected, and the run ended
\* in failure with the one POST
C17_Witness ==
    /\ Threaded
    /\ Returned
    /\ failed_at = "status"
    /\ gets = 1
    /\ posts = 1

\* the failures of the handshake that test_mcp_flow or a check of
\* test_mcp_client.py has met
HandshakeFailures ==
    {"post_exception", "http_error", "status", "no_response", "exception",
     "unexpected_format"}

\* what a failure leaves behind: test_mcp_flow has returned False, and the
\* check of test_mcp_client.py that met it has recorded False
FailuresReturned ==
    /\ Threaded /\ failed_at # "none" => Returned /\ success = "False"
    /\ Threaded /\ Returned => success \in {"True", "False"}
    /\ Threaded /\ pc = "exited" => exit_code \in {0, 1}
    /\ script = "client" /\ failed_at \in HandshakeFailures =>
          /\ Len(results) \in {5, 6}
          /\ ~results[Len(results)]

\* C18: every failure of the handshake (the POST raises, is rejected, the
\* queue is empty, the payload is not JSON, the response has another shape,
\* a tool lacks a field) becomes the result False: test_mcp_flow returns a
\* Boolean on every path, each check records a Boolean, and a step of the
\* listener, one that raises included, leaves the main thread where it is.
C18_FailuresBecomeFalse ==
    [][/\ FailuresReturned'
       /\ V1_Listener \/ V2_Listener => UNCHANGED mainVars
       /\ script = "client" /\ Len(results') > Len(results) =>
             results'[Len(results')] \in BOOLEAN]_vars

\* C18 happens: the listener raised before the stream ended, the payload it
\* had queued was not JSON, and test_mcp_flow returned False
C18_Witness ==
    /\ script = "sse"
    /\ lpc = "done"
    /\ ~eof
    /\ Returned
    /\ posts = 1
    /\ failed_at = "exception"
    /\ success = "False"

\* C19: when test_mcp_get_sensors records its result, a response of a status
\* other than 200 is a failed check; a response of status 200 whose body is
\* an object with an `error` member and no `result` member is a passed
\* check, and one whose body is an object with neither is a failed check.
C19_ErrorFieldPasses ==
    [][script = "client" /\ pc = "get_sensors" /\ pc' = "summary" =>
          /\ Len(results') = 6
          /\ failed_at' # "post_exception" /\ status' # 200 => ~results'[6]
          /\ /\ failed_at' \notin {"post_exception", "exception"}
             /\ status' = 200
             /\ result'.t = "obj"
             /\ ~ObjHas(result', KeyResult)
             => results'[6] = ObjHas(result', KeyError)]_vars

\* C19 happens: the server answered 200 with an error and no result, and the
\* check was recorded as passed
C19_Witness ==
    /\ script = "client"
    /\ pc = "summary"
    /\ Len(results) = 6
    /\ status = 200
    /\ failed_at = "none"
    /\ result = json_loads(BodyError)
    /\ results[6]

\* what test_mcp_flow itself went through before it returned True: it saw
\* the listener's GET issued (and, in test-mcp-sse-v2.py, the connected
\* flag), then a session id, then issued one POST that was accepted, then
\* read a non-empty queue
OrchestratorStepsTaken ==
    /\ gets = 1
    /\ script = "sse_v2" => sse_connected
    /\ Truthy(session_id)
    /\ posts = 1
    /\ Accepted(status)
    /\ queue_reads > 0
    /\ seen # <<>>
    /\ result_from = "sse"

C21_ConnectedBeforeLines ==
    [][script = "sse_v2" =>
          /\ sse_connected => sse_connected'
          /\ line_count' > 0 => sse_connected'
          /\ session_id' # None \/ sse_responses' # <<>> =>
                sse_connected']_vars

\* C21 happens: the listener has published a session id and queued a
\* response, and the flag is set
C21_Witness ==
    /\ script = "sse_v2"
    /\ session_id # None
    /\ sse_responses # <<>>
    /\ line_count > 0
    /\ sse_connected

\* the stream of /sse is open and a listener is in its read loop. In
\* test_mcp_client.py the stream is read inside test_sse_connection only,
\* which has returned whenever main is between two checks.
StreamBeingRead == Threaded /\ lpc = "read" /\ ~eof

\* C22: whenever a POST is issued, the SSE stream that gave the session
\* handle is still open and still being read: the listener has not stopped
\* and the stream has not been abandoned.
C22_StreamOpenAtPost == [][posts' > posts => StreamBeingRead]_vars

=============================================================================
